---- MODULE Spec2Model ----
(***************************************************************************)
(* Model of py/h2o_wave/ml.py: the _DataSource adapter, the H2O-3 model    *)
(* backend (_H2O3ModelBackend) and the entry points build_model,           *)
(* get_model and deploy_model.  The H2O-3 engine is modelled by the state  *)
(* it keeps (frames, AutoML projects) and by a log of the calls made to it.*)
(***************************************************************************)
EXTENDS Integers, Sequences, FiniteSets, TLC

VARIABLES
    INIT,       \* _H2O3ModelBackend.INIT, the process-wide class attribute
    initCalls,  \* engine: number of h2o.init invocations in this process
    frames,     \* engine: frame store, a frame's handle is its index
    projects,   \* engine: AutoML projects, [id, training_frame]
    ds,         \* the _DataSource object the caller holds
    model,      \* the WaveModelBackend the caller holds
    last,       \* outcome of the most recent operation
    pc          \* position of each caller inside build/get (concurrent runs)

vars == <<INIT, initCalls, frames, projects, ds, model, last, pc>>

---------------------------------------------------------------------------
(* Bounds of the model *)

MaxFrames == 2      \* frames the engine holds at most

Threads == {"t1", "t2"}     \* the two concurrent callers

---------------------------------------------------------------------------
(* Values *)

None == <<>>                \* Optional[T]: None is <<>>, a value x is <<x>>
Some(x) == <<x>>
NoFrame == 0                \* _h2o3_frame is None

\* DataSourceObj = Union[str, List[List]]; anything else is "other"
StrData(p) == [kind |-> "str", path |-> p, rows |-> <<>>]
ListData(r) == [kind |-> "list", path |-> "", rows |-> r]
OtherData == [kind |-> "other", path |-> "", rows |-> <<>>]

Paths == {"train.csv", "missing.csv"}
ExistingFiles == {"train.csv"}
RowLiterals == { <<<<1, 2>>, <<3, 4>>>> }
DataObjs == {StrData(p) : p \in Paths} \cup {ListData(r) : r \in RowLiterals}
              \cup {OtherData}

ColumnNameLists == { <<"a", "y">>, <<"a", "b", "y">> }
Targets == {"y", "C2"}

WaveModelBackendType == {"H2O3", "DAI"}
WaveModelMetric == {"AUTO", "AUC"}

Digits == {"0", "1", "2", "3", "4", "5", "6", "7", "8", "9"}
\* values uuid.uuid4() may produce, as character sequences
Uuids == { <<"4", "f">>, <<"c", "0">> }
h2o3_url == ""                  \* _config.h2o3_url, '' unless configured
UnknownId == <<"9", "z">>       \* no project of the engine has this id

NoErr == "none"
NoBackend == [cls |-> "None", id |-> <<>>, type |-> "None",
              aml |-> [project_name |-> <<>>, training_frame |-> NoFrame]]
NoDataSource == [_data |-> [kind |-> "none", path |-> "", rows |-> <<>>],
                 _h2o3_frame |-> NoFrame, _column_names |-> None,
                 _column_types |-> None]

\* one call to the engine, as the log records it
Call(fn, id, frame, names, types, arg) ==
    [fn |-> fn, id |-> id, frame |-> frame, names |-> names, types |-> types,
     arg |-> arg]

\* the arguments of an operation that its outcome is judged by
NoData == [kind |-> "none", path |-> "", rows |-> <<>>]
NoArgs == [data |-> NoData, target |-> "", type |-> None, cls |-> ""]

\* the outcome of an operation: the error raised (or none), the backend
\* method it delegated to, the Backend / frame handle / rows returned, and
\* the engine calls made
Result(op, err, via, ret, frame, rows, calls) ==
    [op |-> op, args |-> NoArgs, err |-> err, via |-> via, ret |-> ret,
     frame |-> frame, rows |-> rows, calls |-> calls]

HasCall(calls, fn) == \E i \in 1..Len(calls) : calls[i].fn = fn

---------------------------------------------------------------------------
(* The engine, as far as ml.py depends on it *)

os_path_exists(filename) == filename \in ExistingFiles

\* h2o.import_file(filename): the frame parsed from the file, with the
\* file's own header
h2o_import_file(filename) ==
    [names |-> <<"a", "y">>, types |-> <<"int", "int">>, nrows |-> 2]

DefaultNames == <<"C1", "C2", "C3", "C4">>

\* h2o.H2OFrame(python_obj=rows): names C1..Cn and types inferred
h2o_H2OFrame(rows) ==
    [names |-> SubSeq(DefaultNames, 1, Len(rows[1])),
     types |-> [i \in 1..Len(rows[1]) |-> "int"],
     nrows |-> Len(rows)]

\* h2o.H2OFrame(python_obj=rows, header=-1, column_names=.., column_types=..):
\* every row is data; the engine rejects a name count unlike the row width
h2o_H2OFrame_named_ok(rows, column_names) == Len(column_names) = Len(rows[1])

h2o_H2OFrame_named(rows, column_names, column_types) ==
    [names |-> column_names, types |-> column_types, nrows |-> Len(rows)]

\* h2o.automl.get_automl(id_): the project registered under id_, if any
h2o_get_automl(ps, id_) == {p \in ps : p.id = id_}

---------------------------------------------------------------------------
(* _DataSource *)

\* _DataSource.__init__
_DataSource(data, column_names, column_types) ==
    [_data |-> data, _h2o3_frame |-> NoFrame, _column_names |-> column_names,
     _column_types |-> column_types]

\* _to_h2o3_frame without the os.path.exists test: every path is imported
_to_h2o3_frame_unchecked_path(self) ==
    LET data == self._data
    IN  IF data.kind = "str"
        THEN [err |-> NoErr, frame |-> h2o_import_file(data.path),
              calls |-> <<Call("h2o.import_file", <<>>, NoFrame, None, None,
                               data.path)>>]
        ELSE IF data.kind = "list"
        THEN [err |-> NoErr, frame |-> h2o_H2OFrame(data.rows),
              calls |-> <<Call("h2o.H2OFrame", <<>>, NoFrame, None, None,
                               "")>>]
        ELSE [err |-> "unknown data type",
              frame |-> [names |-> <<>>, types |-> <<>>, nrows |-> 0],
              calls |-> <<>>]

\* _DataSource._to_h2o3_frame: the frame built, or the error raised, and the
\* engine calls made
_to_h2o3_frame(self) ==
    LET data == self._data
        none == [names |-> <<>>, types |-> <<>>, nrows |-> 0]
    IN  IF data.kind = "str"
        THEN IF os_path_exists(data.path)
             THEN [err |-> NoErr, frame |-> h2o_import_file(data.path),
                   calls |-> <<Call("h2o.import_file", <<>>, NoFrame,
                                    None, None, data.path)>>]
             ELSE [err |-> "file not found", frame |-> none, calls |-> <<>>]
        ELSE IF data.kind = "list"
        THEN IF self._column_names # None
             THEN LET c == Call("h2o.H2OFrame", <<>>, NoFrame,
                                self._column_names, self._column_types, "")
                  IN  IF h2o_H2OFrame_named_ok(data.rows, self._column_names[1])
                      THEN [err |-> NoErr,
                            frame |-> h2o_H2OFrame_named(data.rows,
                                          self._column_names[1],
                                          self._column_types[1]),
                            calls |-> <<c>>]
                      ELSE [err |-> "engine error", frame |-> none,
                            calls |-> <<c>>]
             ELSE [err |-> NoErr, frame |-> h2o_H2OFrame(data.rows),
                   calls |-> <<Call("h2o.H2OFrame", <<>>, NoFrame,
                                    None, None, "")>>]
        ELSE [err |-> "unknown data type", frame |-> none, calls |-> <<>>]

\* h2o3_frame without the 'is None' test: every read materializes anew
h2o3_frame_uncached(self, fs) ==
    LET r == _to_h2o3_frame(self)
    IN  IF r.err = NoErr
        THEN [err |-> NoErr, handle |-> Len(fs) + 1,
              self |-> [self EXCEPT !._h2o3_frame = Len(fs) + 1],
              frames |-> Append(fs, r.frame), calls |-> r.calls]
        ELSE [err |-> r.err, handle |-> NoFrame, self |-> self,
              frames |-> fs, calls |-> r.calls]

\* _DataSource.h2o3_frame (property): the handle returned, the object and
\* the engine's frame store afterwards
h2o3_frame(self, fs) ==
    IF self._h2o3_frame = NoFrame
    THEN LET r == _to_h2o3_frame(self)
         IN  IF r.err = NoErr
             THEN [err |-> NoErr, handle |-> Len(fs) + 1,
                   self |-> [self EXCEPT !._h2o3_frame = Len(fs) + 1],
                   frames |-> Append(fs, r.frame), calls |-> r.calls]
             ELSE [err |-> r.err, handle |-> NoFrame, self |-> self,
                   frames |-> fs, calls |-> r.calls]
    ELSE [err |-> NoErr, handle |-> self._h2o3_frame, self |-> self,
          frames |-> fs, calls |-> <<>>]

---------------------------------------------------------------------------
(* _H2O3ModelBackend *)

\* _H2O3ModelBackend.__init__ (and WaveModelBackend.__init__)
_H2O3ModelBackend(id_, aml) ==
    [cls |-> "_H2O3ModelBackend", id |-> id_, type |-> "H2O3", aml |-> aml]

\* _make_id without the prefix: str(uuid.uuid4())
_make_id_bare(u) == u

\* _H2O3ModelBackend._make_id, u the value of uuid.uuid4()
_make_id(u) == <<"u", "u", "i", "d", "-">> \o u

\* _init that never sets the flag
_init_flag_not_set(flag, n) ==
    IF ~flag
    THEN [INIT |-> flag, initCalls |-> n + 1,
          calls |-> <<Call("h2o.init", <<>>, NoFrame, None, None, "")>>]
    ELSE [INIT |-> flag, initCalls |-> n, calls |-> <<>>]

\* _H2O3ModelBackend._init: the flag, the init count and the calls made
_init(flag, n) ==
    IF ~flag
    THEN [INIT |-> TRUE, initCalls |-> n + 1,
          calls |-> IF h2o3_url # ""
                    THEN <<Call("h2o.init", <<>>, NoFrame, None, None,
                                h2o3_url)>>
                    ELSE <<Call("h2o.init", <<>>, NoFrame, None, None, "")>>]
    ELSE [INIT |-> flag, initCalls |-> n, calls |-> <<>>]

\* list.remove(x): the list without the first occurrence of x
RECURSIVE ListRemove(_, _)
ListRemove(s, x) ==
    IF s = <<>> THEN <<>>
    ELSE IF Head(s) = x THEN Tail(s)
    ELSE <<Head(s)>> \o ListRemove(Tail(s), x)

InList(s, x) == \E i \in 1..Len(s) : s[i] = x

\* build that swallows the ValueError of cols.remove(target) and trains
build_rest_unchecked_target(data, target, metric, u, fs, ps, calls0) ==
    LET id_ == _make_id(u)
        automl == Call("H2OAutoML", id_, NoFrame, None, None, metric)
        f == h2o3_frame(data, fs)
    IN  IF f.err # NoErr
        THEN [frames |-> f.frames, projects |-> ps, ds |-> f.self,
              last |-> [Result("build", f.err, "build", NoBackend, NoFrame,
                               <<>>, calls0 \o <<automl>> \o f.calls)
                        EXCEPT !.args.target = target]]
        ELSE LET cols == f.frames[f.handle].names
                 aml == [project_name |-> id_, training_frame |-> f.handle]
                 train == Call("aml.train", id_, f.handle,
                               Some(ListRemove(cols, target)), None, target)
             IN  [frames |-> f.frames,
                  projects |-> {p \in ps : p.id # id_} \cup
                               {[id |-> id_, training_frame |-> f.handle]},
                  ds |-> f.self,
                  last |-> [Result("build", NoErr, "build",
                                   _H2O3ModelBackend(id_, aml), f.handle,
                                   <<>>,
                                   calls0 \o <<automl>> \o f.calls
                                          \o <<train>>)
                            EXCEPT !.args.target = target]]

\* build that trains first and looks for the target column afterwards
build_rest_train_first(data, target, metric, u, fs, ps, calls0) ==
    LET r == build_rest_unchecked_target(data, target, metric, u, fs, ps,
                                         calls0)
    IN  IF r.last.err = NoErr
           /\ ~InList(r.frames[r.last.frame].names, target)
        THEN [r EXCEPT !.last.err = "no target column",
                       !.last.ret = NoBackend]
        ELSE r

\* _H2O3ModelBackend.build after its call of _init (lines 113-124)
build_rest(data, target, metric, u, fs, ps, calls0) ==
    LET id_ == _make_id(u)
        automl == Call("H2OAutoML", id_, NoFrame, None, None, metric)
        f == h2o3_frame(data, fs)
        cols == f.frames[f.handle].names
    IN  IF f.err # NoErr
        THEN [frames |-> f.frames, projects |-> ps, ds |-> f.self,
              last |-> [Result("build", f.err, "build", NoBackend, NoFrame,
                               <<>>, calls0 \o <<automl>> \o f.calls)
                        EXCEPT !.args.target = target]]
        ELSE IF ~InList(cols, target)
        THEN [frames |-> f.frames, projects |-> ps, ds |-> f.self,
              last |-> [Result("build", "no target column", "build",
                               NoBackend, f.handle, <<>>,
                               calls0 \o <<automl>> \o f.calls)
                        EXCEPT !.args.target = target]]
        ELSE LET aml == [project_name |-> id_, training_frame |-> f.handle]
                 train == Call("aml.train", id_, f.handle,
                               Some(ListRemove(cols, target)), None, target)
             IN  [frames |-> f.frames,
                  projects |-> {p \in ps : p.id # id_} \cup
                               {[id |-> id_, training_frame |-> f.handle]},
                  ds |-> f.self,
                  last |-> [Result("build", NoErr, "build",
                                   _H2O3ModelBackend(id_, aml), f.handle,
                                   <<>>,
                                   calls0 \o <<automl>> \o f.calls
                                          \o <<train>>)
                            EXCEPT !.args.target = target]]

\* _H2O3ModelBackend.get after its call of _init (lines 132-133)
get_rest(id_, ps, calls0) ==
    LET found == h2o_get_automl(ps, id_)
        c == Call("h2o.automl.get_automl", id_, NoFrame, None, None, "")
    IN  IF found = {}
        THEN Result("get", "engine error", "get", NoBackend, NoFrame, <<>>,
                    calls0 \o <<c>>)
        ELSE LET p == CHOOSE q \in found : TRUE
             IN  Result("get", NoErr, "get",
                        _H2O3ModelBackend(id_,
                            [project_name |-> p.id,
                             training_frame |-> p.training_frame]),
                        NoFrame, <<>>, calls0 \o <<c>>)

\* _H2O3ModelBackend.build
build(data, target, metric, u) ==
    LET i == _init(INIT, initCalls)
        r == build_rest(data, target, metric, u, frames, projects, i.calls)
    IN  [INIT |-> i.INIT, initCalls |-> i.initCalls, frames |-> r.frames,
         projects |-> r.projects, ds |-> r.ds, last |-> r.last]

\* _H2O3ModelBackend.get
get(id_) ==
    LET i == _init(INIT, initCalls)
    IN  [INIT |-> i.INIT, initCalls |-> i.initCalls,
         last |-> get_rest(id_, projects, i.calls)]

\* oframe.as_data_frame(use_pandas=False, header=False): one row per row of
\* the frame, no header row
as_data_frame(nrows) == [i \in 1..nrows |-> <<"prediction">>]

\* predict that wraps the inputs without the training frame's schema
predict_own_schema(self, data) ==
    LET training_frame_id == self.aml.training_frame
        c1 == Call("h2o.get_frame", <<>>, training_frame_id, None, None, "")
        f == h2o3_frame(_DataSource(data, None, None), frames)
        c2 == Call("aml.predict", self.id, f.handle, None, None, "")
    IN  IF f.err # NoErr
        THEN [frames |-> f.frames,
              last |-> [Result("predict", f.err, "none", NoBackend, NoFrame,
                               <<>>, <<c1>> \o f.calls)
                        EXCEPT !.args.data = data]]
        ELSE [frames |-> f.frames,
              last |-> [Result("predict", NoErr, "none", NoBackend, f.handle,
                               as_data_frame(f.frames[f.handle].nrows),
                               <<c1>> \o f.calls \o <<c2>>)
                        EXCEPT !.args.data = data]]

\* _H2O3ModelBackend.predict
predict(self, data) ==
    LET training_frame_id == self.aml.training_frame
        training_frame == frames[training_frame_id]
        c1 == Call("h2o.get_frame", <<>>, training_frame_id, None, None, "")
        d == _DataSource(data, Some(training_frame.names),
                         Some(training_frame.types))
        f == h2o3_frame(d, frames)
        c2 == Call("aml.predict", self.id, f.handle, None, None, "")
    IN  IF f.err # NoErr
        THEN [frames |-> f.frames,
              last |-> [Result("predict", f.err, "none", NoBackend, NoFrame,
                               <<>>, <<c1>> \o f.calls)
                        EXCEPT !.args.data = data]]
        ELSE [frames |-> f.frames,
              last |-> [Result("predict", NoErr, "none", NoBackend, f.handle,
                               as_data_frame(f.frames[f.handle].nrows),
                               <<c1>> \o f.calls \o <<c2>>)
                        EXCEPT !.args.data = data]]

\* the backend selection of build_model (lines 227-233): the backend that
\* serves the call, or "NotImplementedError"
build_model_select(model_backend_type) ==
    IF model_backend_type # None
    THEN IF model_backend_type = Some("H2O3") THEN "_H2O3ModelBackend"
         ELSE IF model_backend_type = Some("DAI") THEN "NotImplementedError"
         ELSE "_H2O3ModelBackend"
    ELSE "_H2O3ModelBackend"

\* a selection in which DAI falls through to the default backend
get_model_select_dai_default(model_type) == "_H2O3ModelBackend"

\* the backend selection of get_model (lines 247-252)
get_model_select(model_type) ==
    IF model_type # None
    THEN IF model_type = Some("H2O3") THEN "_H2O3ModelBackend"
         ELSE IF model_type = Some("DAI") THEN "NotImplementedError"
         ELSE "_H2O3ModelBackend"
    ELSE "_H2O3ModelBackend"

\* deploy_model that returns for what is not an H2O-3 model
deploy_model_returns(m) ==
    IF m.cls = "_H2O3ModelBackend"
    THEN "H2O-3 models not supported: cannot deploy"
    ELSE NoErr

\* deploy_model: the error it raises
deploy_model(m) ==
    IF m.cls = "_H2O3ModelBackend"
    THEN "H2O-3 models not supported: cannot deploy"
    ELSE "NotImplementedError"

---------------------------------------------------------------------------
(* Operations, one caller *)

GetIds == {UnknownId} \cup {_make_id(u) : u \in Uuids}
BackendTypeArgs == {None} \cup {Some(t) : t \in WaveModelBackendType}
BaseBackend == [NoBackend EXCEPT !.cls = "WaveModelBackend", !.type = "DAI"]

Idle == [at |-> "idle", op |-> "none", calls |-> <<>>]

Init ==
    /\ INIT = FALSE
    /\ initCalls = 0
    /\ frames = <<>>
    /\ projects = {}
    /\ ds = NoDataSource
    /\ model = NoBackend
    /\ last = Result("none", NoErr, "none", NoBackend, NoFrame, <<>>, <<>>)
    /\ pc = [t \in Threads |-> Idle]

\* ds = _DataSource(data, column_names, column_types)
NewDataSource(data, column_names) ==
    /\ ds' = _DataSource(data, column_names,
                         IF column_names = None THEN None
                         ELSE Some([i \in 1..Len(column_names[1]) |-> "int"]))
    /\ last' = Result("_DataSource", NoErr, "none", NoBackend, NoFrame, <<>>,
                      <<>>)
    /\ UNCHANGED <<INIT, initCalls, frames, projects, model, pc>>

\* ds.h2o3_frame
ReadFrame ==
    /\ ds # NoDataSource
    /\ \E f \in {h2o3_frame(ds, frames)} :
           /\ Len(f.frames) <= MaxFrames
           /\ ds' = f.self
           /\ frames' = f.frames
           /\ last' = Result("h2o3_frame", f.err, "none", NoBackend, f.handle,
                             <<>>, f.calls)
    /\ UNCHANGED <<INIT, initCalls, projects, model, pc>>

\* model = _H2O3ModelBackend.build(ds, target, metric)
Build(target, metric, u) ==
    /\ ds # NoDataSource
    /\ \E r \in {build(ds, target, metric, u)} :
           /\ Len(r.frames) <= MaxFrames
           /\ INIT' = r.INIT
           /\ initCalls' = r.initCalls
           /\ frames' = r.frames
           /\ projects' = r.projects
           /\ ds' = r.ds
           /\ last' = r.last
           /\ model' = IF r.last.err = NoErr THEN r.last.ret ELSE model
    /\ UNCHANGED pc

\* model = build_model(data_obj, target, metric, model_backend_type)
BuildModel(data_obj, target, metric, model_backend_type) ==
    LET d == _DataSource(data_obj, None, None)
    IN  IF build_model_select(model_backend_type) = "_H2O3ModelBackend"
        THEN \E u \in Uuids :
               \E r \in {build(d, target, metric, u)} :
                   /\ Len(r.frames) <= MaxFrames
                   /\ INIT' = r.INIT
                   /\ initCalls' = r.initCalls
                   /\ frames' = r.frames
                   /\ projects' = r.projects
                   /\ ds' = r.ds
                   /\ last' = [r.last EXCEPT !.op = "build_model",
                                             !.args.type = model_backend_type]
                   /\ model' = IF r.last.err = NoErr THEN r.last.ret ELSE model
                   /\ UNCHANGED pc
        ELSE /\ ds' = d
             /\ last' = [Result("build_model", "NotImplementedError", "none",
                                NoBackend, NoFrame, <<>>, <<>>)
                         EXCEPT !.args.target = target,
                                !.args.type = model_backend_type]
             /\ UNCHANGED <<INIT, initCalls, frames, projects,
                            model, pc>>

\* model = get_model(id_, model_type)
GetModel(id_, model_type) ==
    IF get_model_select(model_type) = "_H2O3ModelBackend"
    THEN \E r \in {get(id_)} :
             /\ INIT' = r.INIT
             /\ initCalls' = r.initCalls
             /\ last' = [r.last EXCEPT !.op = "get_model",
                                       !.args.type = model_type]
             /\ model' = IF r.last.err = NoErr THEN r.last.ret ELSE model
             /\ UNCHANGED <<frames, projects, ds, pc>>
    ELSE /\ last' = [Result("get_model", "NotImplementedError", "none",
                            NoBackend, NoFrame, <<>>, <<>>)
                     EXCEPT !.args.type = model_type]
         /\ UNCHANGED <<INIT, initCalls, frames, projects, ds,
                        model, pc>>

\* model.predict(data)
Predict(data) ==
    /\ model.cls = "_H2O3ModelBackend"
    /\ \E r \in {predict(model, data)} :
           /\ Len(r.frames) <= MaxFrames
           /\ frames' = r.frames
           /\ last' = r.last
    /\ UNCHANGED <<INIT, initCalls, projects, ds, model, pc>>

\* deploy_model(m)
DeployModel(m) ==
    /\ last' = [Result("deploy_model", deploy_model(m), "none", NoBackend,
                       NoFrame, <<>>, <<>>)
                EXCEPT !.args.cls = m.cls]
    /\ UNCHANGED <<INIT, initCalls, frames, projects, ds, model, pc>>

Next ==
    \/ \E d \in DataObjs : NewDataSource(d, None)
    \/ \E r \in RowLiterals, c \in ColumnNameLists :
         NewDataSource(ListData(r), Some(c))
    \/ ReadFrame
    \/ \E t \in Targets, m \in WaveModelMetric, u \in Uuids : Build(t, m, u)
    \/ \E d \in DataObjs, t \in Targets, m \in WaveModelMetric,
          b \in BackendTypeArgs : BuildModel(d, t, m, b)
    \/ \E i \in GetIds, b \in BackendTypeArgs : GetModel(i, b)
    \/ \E d \in DataObjs : Predict(d)
    \/ \E m \in {model, BaseBackend, NoBackend} : DeployModel(m)

Spec == Init /\ [][Next]_vars

---------------------------------------------------------------------------
(* Two concurrent callers of build_model / get_model.  _init is not atomic: *)
(* the test of INIT (line 101), the call of h2o.init (lines 102-105) and    *)
(* the assignment INIT = True (line 106) are separate steps, and nothing    *)
(* locks them.                                                              *)

\* a caller enters _H2O3ModelBackend.build or .get, which first calls _init
Enter(t, op) ==
    /\ pc[t].at = "idle"
    /\ pc' = [pc EXCEPT ![t] = [at |-> "l101", op |-> op, calls |-> <<>>]]
    /\ UNCHANGED <<INIT, initCalls, frames, projects, ds, model, last>>

\* line 101: if not cls.INIT
TestInit(t) ==
    /\ pc[t].at = "l101"
    /\ pc' = [pc EXCEPT ![t].at = IF ~INIT THEN "l102" ELSE "rest"]
    /\ UNCHANGED <<INIT, initCalls, frames, projects, ds, model, last>>

\* _init that tests the flag again before calling h2o.init
CallInitRechecked(t) ==
    /\ pc[t].at = "l102"
    /\ IF INIT
       THEN /\ pc' = [pc EXCEPT ![t].at = "rest"]
            /\ UNCHANGED initCalls
       ELSE /\ initCalls' = initCalls + 1
            /\ pc' = [pc EXCEPT ![t].at = "l106",
                                ![t].calls = _init(FALSE, initCalls).calls]
    /\ UNCHANGED <<INIT, frames, projects, ds, model, last>>

\* lines 102-105: h2o.init(...)
CallInit(t) ==
    /\ pc[t].at = "l102"
    /\ initCalls' = initCalls + 1
    /\ pc' = [pc EXCEPT ![t].at = "l106",
                        ![t].calls = _init(FALSE, initCalls).calls]
    /\ UNCHANGED <<INIT, frames, projects, ds, model, last>>

\* line 106: cls.INIT = True
SetInit(t) ==
    /\ pc[t].at = "l106"
    /\ INIT' = TRUE
    /\ pc' = [pc EXCEPT ![t].at = "rest"]
    /\ UNCHANGED <<initCalls, frames, projects, ds, model, last>>

\* the rest of build (lines 113-124) on the caller's own _DataSource
RestBuild(t, data_obj, target, metric, u) ==
    /\ pc[t].at = "rest"
    /\ pc[t].op = "build"
    /\ \E r \in {build_rest(_DataSource(data_obj, None, None), target, metric,
                           u, frames, projects, pc[t].calls)} :
           /\ Len(r.frames) <= MaxFrames
           /\ frames' = r.frames
           /\ projects' = r.projects
           /\ ds' = r.ds
           /\ last' = [r.last EXCEPT !.op = "build_model"]
           /\ model' = IF r.last.err = NoErr THEN r.last.ret ELSE model
    /\ pc' = [pc EXCEPT ![t] = Idle]
    /\ UNCHANGED <<INIT, initCalls>>

\* the rest of get (lines 132-133)
RestGet(t, id_) ==
    /\ pc[t].at = "rest"
    /\ pc[t].op = "get"
    /\ \E r \in {get_rest(id_, projects, pc[t].calls)} :
           /\ last' = [r EXCEPT !.op = "get_model"]
           /\ model' = IF r.err = NoErr THEN r.ret ELSE model
    /\ pc' = [pc EXCEPT ![t] = Idle]
    /\ UNCHANGED <<INIT, initCalls, frames, projects, ds>>

\* the data the concurrent callers build from
ConcDataObjs == {StrData(p) : p \in Paths}

NextConc ==
    \E t \in Threads :
        \/ \E op \in {"build", "get"} : Enter(t, op)
        \/ TestInit(t)
        \/ CallInit(t)
        \/ SetInit(t)
        \/ \E d \in ConcDataObjs, g \in Targets, m \in WaveModelMetric,
              u \in Uuids : RestBuild(t, d, g, m, u)
        \/ \E i \in GetIds : RestGet(t, i)

SpecConc == Init /\ [][NextConc]_vars

---------------------------------------------------------------------------
(* Properties *)

BuildOps == {"build", "build_model"}
Delegated == {"build", "get"}       \* last.via of a call served by H2O-3
UuidPrefix == <<"u", "u", "i", "d", "-">>

\* C1: a build whose target is not among the columns of the materialized
\* frame fails with 'no target column', never invokes aml.train and returns
\* no Backend (and registers no project under the generated id).
C1_NoTargetColumn ==
    (/\ last.op \in BuildOps
     /\ last.via = "build"
     /\ last.frame # NoFrame
     /\ ~InList(frames[last.frame].names, last.args.target))
    => /\ last.err = "no target column"
       /\ ~HasCall(last.calls, "aml.train")
       /\ last.ret = NoBackend

C1_Witness ==
    /\ last.op = "build_model"
    /\ last.err = "no target column"
    /\ last.frame # NoFrame
    /\ ~InList(frames[last.frame].names, last.args.target)

\* C2: with one caller, h2o.init is invoked by the first build or get call
\* and by no later one, and INIT, once true, is never reset.
C2_InitOnce ==
    [][/\ INIT => INIT'
       /\ (last'.via \in Delegated /\ ~INIT)
            => (INIT' /\ initCalls = 0 /\ initCalls' = 1
                /\ HasCall(last'.calls, "h2o.init"))
       /\ INIT => (initCalls' = initCalls
                   /\ ~HasCall(last'.calls, "h2o.init"))
       /\ (initCalls' # initCalls) => last'.via \in Delegated]_vars

C2_Witness ==
    /\ INIT
    /\ initCalls = 1
    /\ last.via \in Delegated
    /\ ~HasCall(last.calls, "h2o.init")

\* C3: deploy_model never succeeds: 'cannot deploy' for an _H2O3ModelBackend,
\* NotImplementedError for anything else, and no engine call either way.
C3_DeployNeverSucceeds ==
    last.op = "deploy_model"
    => /\ last.err # NoErr
       /\ last.args.cls = "_H2O3ModelBackend"
            => last.err = "H2O-3 models not supported: cannot deploy"
       /\ last.args.cls # "_H2O3ModelBackend"
            => last.err = "NotImplementedError"
       /\ last.calls = <<>>
       /\ last.ret = NoBackend

C3_Witness ==
    /\ last.op = "deploy_model"
    /\ last.args.cls = "_H2O3ModelBackend"
    /\ last.err = "H2O-3 models not supported: cannot deploy"

\* C4: build_model and get_model select the backend alike: H2O3 or None
\* delegates to _H2O3ModelBackend.build / .get, DAI fails with
\* NotImplementedError and never reaches the H2O-3 backend.
C4_SelectionPolicy ==
    /\ \A b \in BackendTypeArgs : build_model_select(b) = get_model_select(b)
    /\ last.op \in {"build_model", "get_model"}
       => /\ last.args.type \in {None, Some("H2O3")}
            => last.via = (IF last.op = "build_model" THEN "build" ELSE "get")
          /\ last.args.type = Some("DAI")
            => /\ last.err = "NotImplementedError"
               /\ last.via = "none"
               /\ last.calls = <<>>

C4_Witness ==
    /\ last.op = "get_model"
    /\ last.args.type = Some("DAI")
    /\ last.err = "NotImplementedError"
    /\ model # NoBackend

\* C5: once a _DataSource holds its frame, every later read of h2o3_frame on
\* that object (directly or from build) returns the same handle, creates no
\* frame and calls the engine's frame constructors no more; the first
\* successful read is the one that stores the handle.
C5_Memoized ==
    [][last'.op \in {"h2o3_frame", "build"}
       => /\ ds._h2o3_frame # NoFrame
            => /\ ds' = ds
               /\ frames' = frames
               /\ last'.frame = ds._h2o3_frame
               /\ ~HasCall(last'.calls, "h2o.H2OFrame")
               /\ ~HasCall(last'.calls, "h2o.import_file")
          /\ (ds._h2o3_frame = NoFrame /\ last'.frame # NoFrame)
            => /\ ds'._h2o3_frame = last'.frame
               /\ Len(frames') = Len(frames) + 1]_vars

C5_Witness ==
    /\ last.op = "h2o3_frame"
    /\ last.err = NoErr
    /\ last.calls = <<>>
    /\ last.frame = ds._h2o3_frame
    /\ ds._column_names # None

\* the data reference the last materialization worked on
MaterializedData ==
    IF last.op = "predict" THEN last.args.data ELSE ds._data

Materializes ==
    \/ last.op \in {"h2o3_frame", "predict"}
    \/ last.op \in BuildOps /\ last.via = "build"

\* C6: a path that does not exist fails with 'file not found' without a call
\* of h2o.import_file; a reference that is neither str nor list fails with
\* 'unknown data type'; only an existing path or a list reaches the engine's
\* frame constructors; after either failure the object holds no handle.
C6_Classification ==
    /\ Materializes
       => LET d == MaterializedData
              missing == d.kind = "str" /\ ~os_path_exists(d.path)
              other == d.kind \notin {"str", "list"}
          IN  /\ missing => (last.err = "file not found"
                             /\ ~HasCall(last.calls, "h2o.import_file"))
              /\ other => last.err = "unknown data type"
              /\ last.err = "file not found" => missing
              /\ last.err = "unknown data type" => other
              /\ (missing \/ other)
                   => /\ ~HasCall(last.calls, "h2o.H2OFrame")
                      /\ last.frame = NoFrame
                      /\ last.op # "predict" => ds._h2o3_frame = NoFrame
    /\ ds._h2o3_frame # NoFrame
       => \/ ds._data.kind = "list"
          \/ ds._data.kind = "str" /\ os_path_exists(ds._data.path)

C6_Witness ==
    /\ last.op = "h2o3_frame"
    /\ last.err = "file not found"
    /\ ds._data.kind = "str"
    /\ ds._h2o3_frame = NoFrame

\* C7: the id of a Backend returned by build is 'uuid-' followed by the
\* uuid4 value, so it does not begin with a digit; it is the project name
\* given to H2OAutoML and to the training, and the id the Backend stores.
C7_GeneratedId ==
    (last.op \in BuildOps /\ last.err = NoErr)
    => LET id_ == last.ret.id
       IN  /\ Len(id_) > Len(UuidPrefix)
           /\ SubSeq(id_, 1, Len(UuidPrefix)) = UuidPrefix
           /\ SubSeq(id_, Len(UuidPrefix) + 1, Len(id_)) \in Uuids
           /\ Head(id_) \notin Digits
           /\ last.ret.aml.project_name = id_
           /\ model = last.ret
           /\ \A i \in 1..Len(last.calls) :
                last.calls[i].fn \in {"H2OAutoML", "aml.train"}
                => last.calls[i].id = id_
           /\ \E p \in projects : p.id = id_

C7_Witness ==
    /\ last.op = "build_model"
    /\ last.err = NoErr
    /\ last.ret.id[Len(UuidPrefix) + 1] \in Digits

FailOps == {"build", "build_model", "get_model", "predict", "deploy_model"}

C9_UnguardedInit ==
    [][\A t \in Threads :
         /\ (pc[t].at = "l101" /\ pc'[t].at = "l102") => ~INIT
         /\ (pc[t].at = "l102" /\ pc'[t] # pc[t])
              => (initCalls' = initCalls + 1 /\ pc'[t].at = "l106")]_vars

C9_Witness ==
    /\ \A t \in Threads : pc[t].at = "l106"
    /\ initCalls = 2
    /\ ~INIT

\* rows of the caller's inputs
InputRows(d) ==
    IF d.kind = "list" THEN Len(d.rows) ELSE h2o_import_file(d.path).nrows

\* C10 as claimed: whatever the inputs, the frame scored has the names and
\* types of the backend's training frame, and one row is returned per input
\* row.
C10_TrainingSchema ==
    (last.op = "predict" /\ last.err = NoErr)
    => LET tf == frames[model.aml.training_frame]
           f == frames[last.frame]
       IN  /\ f.names = tf.names
           /\ f.types = tf.types
           /\ Len(last.rows) = InputRows(last.args.data)

\* C10 amended: for a literal row sequence the frame scored is built with the
\* names and types of the training frame; for a file path it is the imported
\* file with the file's own columns; in both cases one row is returned per
\* input row.
C10_SchemaForLiterals ==
    (last.op = "predict" /\ last.err = NoErr)
    => LET tf == frames[model.aml.training_frame]
           f == frames[last.frame]
           d == last.args.data
       IN  /\ d.kind = "list"
                => /\ f.names = tf.names
                   /\ f.types = tf.types
                   /\ \E i \in 1..Len(last.calls) :
                        /\ last.calls[i].fn = "h2o.H2OFrame"
                        /\ last.calls[i].names = Some(tf.names)
                        /\ last.calls[i].types = Some(tf.types)
           /\ d.kind = "str"
                => /\ f = h2o_import_file(d.path)
                   /\ HasCall(last.calls, "h2o.import_file")
                   /\ ~HasCall(last.calls, "h2o.H2OFrame")
           /\ Len(last.rows) = InputRows(d)
           /\ last.calls[1].fn = "h2o.get_frame"
           /\ last.calls[1].frame = model.aml.training_frame
           /\ last.calls[Len(last.calls)].fn = "aml.predict"
           /\ last.calls[Len(last.calls)].frame = last.frame

C10_Witness ==
    /\ last.op = "predict"
    /\ last.err = NoErr
    /\ last.args.data.kind = "list"
    /\ frames[last.frame].names = <<"a", "y">>
    /\ Len(last.rows) = 2

====
